---- MODULE Spec2Model ----
(***************************************************************************)
(* State-machine model of the light-cycle game in src/main.py: the two     *)
(* LightCycle objects, the key-event handler of the main loop, the round   *)
(* tick (AI decision, moves, collision check, outcome and score update)    *)
(* and the restart command.  Rendering, audio and the menu screens are     *)
(* left out; quitting the process (QUIT / K_ESCAPE) is not modelled.       *)
(***************************************************************************)
EXTENDS Integers, Sequences, FiniteSets, TLC

\* ------------------------------------------------------------------ CONFIG
GRID_WIDTH == 40
GRID_HEIGHT == 30
ROUNDS_TO_WIN == 3

UP == <<0, -1>>
DOWN == <<0, 1>>
LEFT == <<-1, 0>>
RIGHT == <<1, 0>>
DIRS == <<UP, DOWN, LEFT, RIGHT>>

\* ------------------------------------------------------------------ bounds
\* frames explored per round, and key events handled within one frame
MaxTicks == 2
MaxKeys == 2

\* keys that the event loop binds (pygame key codes, by name)
Keys == {"K_UP", "K_DOWN", "K_LEFT", "K_RIGHT", "K_w", "K_s", "K_a", "K_d", "K_r"}

VARIABLES vs_ai, best_of, scores, player1, player2, round_over, winner_text,
          p1_dead, p2_dead, ticks, nkeys

vars == <<vs_ai, best_of, scores, player1, player2, round_over, winner_text,
          p1_dead, p2_dead, ticks, nkeys>>

\* ------------------------------------------------------------ LightCycle
LightCycle(start_pos, direction, name) ==
  [trail |-> <<start_pos>>, direction |-> direction, alive |-> TRUE, name |-> name]

head(p) == p.trail[Len(p.trail)]

\* variant: the new cell is put in front of the trail
move_prepend(p) ==
  IF ~p.alive THEN p
  ELSE [p EXCEPT !.trail = <<<<head(p)[1] + p.direction[1], head(p)[2] + p.direction[2]>>>> \o p.trail]

\* variant: a move that leaves the grid clears the alive flag
move_marks_dead(p) ==
  IF ~p.alive THEN p
  ELSE [p EXCEPT !.trail = Append(p.trail, <<head(p)[1] + p.direction[1], head(p)[2] + p.direction[2]>>),
                 !.alive = /\ head(p)[1] + p.direction[1] \in 0..(GRID_WIDTH - 1)
                           /\ head(p)[2] + p.direction[2] \in 0..(GRID_HEIGHT - 1)]

move(p) ==
  IF ~p.alive THEN p
  ELSE [p EXCEPT !.trail = Append(p.trail, <<head(p)[1] + p.direction[1], head(p)[2] + p.direction[2]>>)]

\* variant: no reversal check
change_direction_always(p, new_dir) == [p EXCEPT !.direction = new_dir]

change_direction(p, new_dir) ==
  IF <<-new_dir[1], -new_dir[2]>> # p.direction THEN [p EXCEPT !.direction = new_dir] ELSE p

\* ---------------------------------------------------------------- helpers
in_bounds(pos) == 0 <= pos[1] /\ pos[1] < GRID_WIDTH /\ 0 <= pos[2] /\ pos[2] < GRID_HEIGHT

build_occupied(players) ==
  UNION {{players[i].trail[k] : k \in 1..Len(players[i].trail)} : i \in 1..Len(players)}

next_pos_from(h, direction) == <<h[1] + direction[1], h[2] + direction[2]>>

\* variant: the occupancy is not looked at
safe_directions_bounds_only(h, current_dir, occupied) ==
  LET keep(d) == /\ <<-d[1], -d[2]>> # current_dir
                 /\ in_bounds(next_pos_from(h, d))
  IN SelectSeq(DIRS, keep)

\* variant: the reversal of the current heading is not skipped
safe_directions_with_reversal(h, current_dir, occupied) ==
  LET keep(d) == /\ in_bounds(next_pos_from(h, d))
                 /\ next_pos_from(h, d) \notin occupied
  IN SelectSeq(DIRS, keep)

safe_directions(h, current_dir, occupied) ==
  LET keep(d) == /\ <<-d[1], -d[2]>> # current_dir
                 /\ in_bounds(next_pos_from(h, d))
                 /\ next_pos_from(h, d) \notin occupied
  IN SelectSeq(DIRS, keep)

abs(n) == IF n < 0 THEN -n ELSE n

manhattan(a, b) == abs(a[1] - b[1]) + abs(a[2] - b[2])

\* draws of random.randint(-2, 2), one per candidate in loop order
Jitters == [1..3 -> -2..2]

\* score of the i-th candidate d (loop body, lines 155-166)
ai_score(ai, human, occupied, d, hunt, jitter) ==
  LET np == next_pos_from(head(ai), d)
      occ2 == occupied \cup {np}
      space_score == Len(safe_directions(np, d, occ2)) * 10
      dist_score == IF hunt THEN 50 - manhattan(np, head(human)) ELSE 0
      straight_bonus == IF d = ai.direction THEN 2 ELSE 0
  IN space_score + dist_score + straight_bonus + jitter

\* variant: the comparison is >=, so the last of several greatest scores wins
RECURSIVE ai_loop_last_max(_, _, _, _, _, _, _, _, _)
ai_loop_last_max(ai, human, occupied, candidates, hunt, jit, i, best, best_score) ==
  IF i > Len(candidates) THEN best
  ELSE LET score == ai_score(ai, human, occupied, candidates[i], hunt, jit[i])
       IN IF score >= best_score
          THEN ai_loop_last_max(ai, human, occupied, candidates, hunt, jit, i + 1, candidates[i], score)
          ELSE ai_loop_last_max(ai, human, occupied, candidates, hunt, jit, i + 1, best, best_score)

RECURSIVE ai_loop(_, _, _, _, _, _, _, _, _)
ai_loop(ai, human, occupied, candidates, hunt, jit, i, best, best_score) ==
  IF i > Len(candidates) THEN best
  ELSE LET score == ai_score(ai, human, occupied, candidates[i], hunt, jit[i])
       IN IF score > best_score
          THEN ai_loop(ai, human, occupied, candidates, hunt, jit, i + 1, candidates[i], score)
          ELSE ai_loop(ai, human, occupied, candidates, hunt, jit, i + 1, best, best_score)

\* variant: without candidates the first entry of DIRS is returned
choose_ai_direction_first_dir(ai, human, occupied, hunt, jit) ==
  LET candidates == safe_directions(head(ai), ai.direction, occupied)
  IN IF Len(candidates) = 0 THEN DIRS[1]
     ELSE ai_loop(ai, human, occupied, candidates, hunt, jit, 1, ai.direction, -(10^9))

choose_ai_direction(ai, human, occupied, hunt, jit) ==
  LET candidates == safe_directions(head(ai), ai.direction, occupied)
  IN IF Len(candidates) = 0 THEN ai.direction
     ELSE ai_loop(ai, human, occupied, candidates, hunt, jit, 1, ai.direction, -(10^9))

\* every heading the AI can return in this state, over the random draws
ai_choices(ai, human, occupied) ==
  {choose_ai_direction(ai, human, occupied, hunt, jit) : hunt \in BOOLEAN, jit \in Jitters}

reset_round(is_vs_ai) ==
  <<LightCycle(<<10, GRID_HEIGHT \div 2>>, RIGHT, "Player 1"),
    LightCycle(<<GRID_WIDTH - 10, GRID_HEIGHT \div 2>>, LEFT, IF is_vs_ai THEN "AI" ELSE "Player 2")>>

\* ------------------------------------------------------------------- main
rounds_to_win == IF best_of = 1 THEN 1 ELSE ROUNDS_TO_WIN

match_over == best_of = 5 /\ (scores.P1 >= rounds_to_win \/ scores.P2 >= rounds_to_win)

\* variant: only the bounds are checked
player_dead_bounds_only(p, players) == ~in_bounds(head(p))

\* variant: only the other agent's trail is checked, not the agent's own
player_dead_other_only(p, players) ==
  IF ~in_bounds(head(p)) THEN TRUE
  ELSE \E i \in 1..Len(players) :
         /\ players[i] # p
         /\ \E k \in 1..(Len(players[i].trail) - 1) : players[i].trail[k] = head(p)

\* variant: the slice keeps the last cell of every trail
player_dead_whole_trail(p, players) ==
  IF ~in_bounds(head(p)) THEN TRUE
  ELSE \E i \in 1..Len(players) :
         \E k \in 1..Len(players[i].trail) : players[i].trail[k] = head(p)

player_dead(p, players) ==
  IF ~in_bounds(head(p)) THEN TRUE
  ELSE \E i \in 1..Len(players) :
         \E k \in 1..Len(SubSeq(players[i].trail, 1, Len(players[i].trail) - 1)) :
           SubSeq(players[i].trail, 1, Len(players[i].trail) - 1)[k] = head(p)

\* direction keys of one KEYDOWN event while the round is running (lines 340-359)
on_key(ps, key, is_vs_ai) ==
  LET p1 == IF key = "K_UP" THEN change_direction(ps[1], UP)
            ELSE IF key = "K_DOWN" THEN change_direction(ps[1], DOWN)
            ELSE IF key = "K_LEFT" THEN change_direction(ps[1], LEFT)
            ELSE IF key = "K_RIGHT" THEN change_direction(ps[1], RIGHT)
            ELSE ps[1]
      p2 == IF ~is_vs_ai
            THEN IF key = "K_w" THEN change_direction(ps[2], UP)
                 ELSE IF key = "K_s" THEN change_direction(ps[2], DOWN)
                 ELSE IF key = "K_a" THEN change_direction(ps[2], LEFT)
                 ELSE IF key = "K_d" THEN change_direction(ps[2], RIGHT)
                 ELSE ps[2]
            ELSE ps[2]
  IN <<p1, p2>>

\* variant: player 2 stays where it is when player 1 has just taken its next cell
tick_move_blocking(ps, ai_dir, is_vs_ai) ==
  LET p2a == IF is_vs_ai THEN change_direction(ps[2], ai_dir) ELSE ps[2]
      p1m == move(ps[1])
  IN <<p1m, IF head(move(p2a)) = head(p1m) THEN p2a ELSE move(p2a)>>

\* AI heading update and the two moves of one tick (lines 363-371);
\* ai_dir is the value choose_ai_direction returned
tick_move(ps, ai_dir, is_vs_ai) ==
  LET p2a == IF is_vs_ai THEN change_direction(ps[2], ai_dir) ELSE ps[2]
  IN <<move(ps[1]), move(p2a)>>

\* variant: the round ends only when both agents are dead
round_ends_both(d1, d2) == d1 /\ d2

\* the test that ends the round (line 387)
round_ends(d1, d2) == d1 \/ d2

\* outcome text and score update once the collision check has run (lines 387-399)
winner_of(d1, d2) ==
  IF d1 /\ d2 THEN "Draw!"
  ELSE IF d2 THEN "Player 1 Wins!"
  ELSE IF vs_ai THEN "AI Wins!" ELSE "Player 2 Wins!"

\* variant: the winner's counter is also raised on a draw
scores_after_draw_counts(d1, d2) ==
  IF d2 THEN (IF best_of = 5 THEN [scores EXCEPT !.P1 = @ + 1] ELSE scores)
  ELSE (IF best_of = 5 THEN [scores EXCEPT !.P2 = @ + 1] ELSE scores)

scores_after(d1, d2) ==
  IF d1 /\ d2 THEN scores
  ELSE IF d2 THEN (IF best_of = 5 THEN [scores EXCEPT !.P1 = @ + 1] ELSE scores)
  ELSE (IF best_of = 5 THEN [scores EXCEPT !.P2 = @ + 1] ELSE scores)

\* variant: the restart command never clears the counters
scores_on_restart_never == scores

\* variant: the restart command always clears the counters
scores_on_restart_always == [P1 |-> 0, P2 |-> 0]

\* scores after the restart command (lines 332-333)
scores_on_restart ==
  IF best_of = 5 /\ (scores.P1 >= rounds_to_win \/ scores.P2 >= rounds_to_win)
  THEN [P1 |-> 0, P2 |-> 0] ELSE scores

\* --------------------------------------------------- states of a first round
\* A frame of a script: the keys handled before the tick and, for the AI
\* opponent, the heading choose_ai_direction returned.  replay runs the frames
\* from reset_round and yields <<>> when the code cannot produce the run (the
\* AI cannot return that heading, or the round would already be over).
Frame(keys, ai) == [keys |-> keys, ai |-> ai]

RECURSIVE apply_keys(_, _, _, _)
apply_keys(ps, keys, i, is_vs_ai) ==
  IF i > Len(keys) THEN ps ELSE apply_keys(on_key(ps, keys[i], is_vs_ai), keys, i + 1, is_vs_ai)

RECURSIVE replay(_, _, _, _)
replay(ps, script, i, is_vs_ai) ==
  IF i > Len(script) THEN ps
  ELSE LET pk == apply_keys(ps, script[i].keys, 1, is_vs_ai)
           ok == ~is_vs_ai \/ script[i].ai \in ai_choices(pk[2], pk[1], build_occupied(pk))
           pm == tick_move(pk, script[i].ai, is_vs_ai)
       IN IF ok /\ ~player_dead(pm[1], pm) /\ ~player_dead(pm[2], pm)
          THEN replay(pm, script, i + 1, is_vs_ai)
          ELSE <<>>

Straight == Frame(<<>>, LEFT)

\* both riders keep their starting headings for nine ticks: heads at (19,15), (21,15)
ScriptHeadOn == [i \in 1..9 |-> Straight]

\* player 1 turns round in the first frame and rides to the left wall,
\* the opponent rides straight on: heads at (0,15), (20,15)
ScriptWall == [i \in 1..10 |-> IF i = 1 THEN Frame(<<"K_UP", "K_LEFT">>, LEFT) ELSE Straight]

\* the keys that ask for heading d: arrows for player 1, WASD for player 2
ArrowKey(d) == IF d = UP THEN "K_UP" ELSE IF d = DOWN THEN "K_DOWN" ELSE IF d = LEFT THEN "K_LEFT" ELSE "K_RIGHT"
LetterKey(d) == IF d = UP THEN "K_w" ELSE IF d = DOWN THEN "K_s" ELSE IF d = LEFT THEN "K_a" ELSE "K_d"

\* a frame in which player 1 asks for m[1] and the opponent heads m[2]
\* (by key in a two-player game, by choose_ai_direction against the AI)
FrameOf(m) == Frame(<<ArrowKey(m[1]), LetterKey(m[2])>>, m[2])

\* eighteen frames after which the opponent, at (16,15) heading LEFT, has
\* player 1's trail above and below it and one free cell, (15,15), ahead,
\* itself closed in on three sides by player 1's trail
TrapMoves ==
  << <<RIGHT, LEFT>>, <<RIGHT, LEFT>>, <<RIGHT, LEFT>>, <<RIGHT, LEFT>>, <<UP, LEFT>>,
     <<RIGHT, LEFT>>, <<RIGHT, LEFT>>, <<UP, LEFT>>, <<RIGHT, LEFT>>, <<RIGHT, LEFT>>,
     <<RIGHT, UP>>, <<DOWN, LEFT>>, <<DOWN, DOWN>>, <<DOWN, DOWN>>, <<LEFT, LEFT>>,
     <<LEFT, LEFT>>, <<LEFT, UP>>, <<LEFT, LEFT>> >>

ScriptTrap == [i \in 1..Len(TrapMoves) |-> FrameOf(TrapMoves[i])]

Scripts == {<<>>, ScriptHeadOn, ScriptWall, ScriptTrap}

\* ------------------------------------------------------------------ actions
Init ==
  /\ vs_ai \in BOOLEAN
  /\ best_of \in {1, 5}
  /\ scores = [P1 |-> 0, P2 |-> 0]
  /\ \E script \in Scripts :
       LET ps == replay(reset_round(vs_ai), script, 1, vs_ai)
       IN /\ ps # <<>>
          /\ player1 = ps[1]
          /\ player2 = ps[2]
  /\ round_over = FALSE
  /\ winner_text = ""
  /\ p1_dead = FALSE
  /\ p2_dead = FALSE
  /\ ticks = 0
  /\ nkeys = 0

\* the restart command, K_r while the round is over (lines 330-337)
Restart ==
  /\ scores' = scores_on_restart
  /\ player1' = reset_round(vs_ai)[1]
  /\ player2' = reset_round(vs_ai)[2]
  /\ round_over' = FALSE
  /\ winner_text' = ""
  /\ ticks' = 0

\* the direction keys of both players (lines 340-359)
DirectionKeys(key) ==
  /\ player1' = on_key(<<player1, player2>>, key, vs_ai)[1]
  /\ player2' = on_key(<<player1, player2>>, key, vs_ai)[2]
  /\ UNCHANGED <<scores, round_over, winner_text, ticks>>

\* variant: the round_over branch does not skip the direction keys
KeyDown_no_continue(key) ==
  /\ nkeys < MaxKeys
  /\ round_over \/ ticks < MaxTicks
  /\ nkeys' = nkeys + 1
  /\ UNCHANGED <<vs_ai, best_of, p1_dead, p2_dead>>
  /\ IF round_over /\ key = "K_r" THEN Restart ELSE DirectionKeys(key)

\* one KEYDOWN event of the event loop (lines 323-359)
KeyDown(key) ==
  /\ nkeys < MaxKeys
  /\ round_over \/ ticks < MaxTicks
  /\ nkeys' = nkeys + 1
  /\ UNCHANGED <<vs_ai, best_of, p1_dead, p2_dead>>
  /\ IF round_over
     THEN IF key = "K_r"
          THEN Restart
          ELSE UNCHANGED <<scores, player1, player2, round_over, winner_text, ticks>>
     ELSE DirectionKeys(key)

\* AI decision, moves, collision check and outcome of a running round (lines 362-399)
RoundTick ==
  \E ai_dir \in (IF vs_ai
                 THEN ai_choices(player2, player1, build_occupied(<<player1, player2>>))
                 ELSE {player2.direction}) :
    LET ps == tick_move(<<player1, player2>>, ai_dir, vs_ai)
        d1 == player_dead(ps[1], ps)
        d2 == player_dead(ps[2], ps)
    IN /\ player1' = ps[1]
       /\ player2' = ps[2]
       /\ p1_dead' = d1
       /\ p2_dead' = d2
       /\ ticks' = ticks + 1
       /\ IF round_ends(d1, d2)
          THEN /\ round_over' = TRUE
               /\ winner_text' = winner_of(d1, d2)
               /\ scores' = scores_after(d1, d2)
          ELSE UNCHANGED <<round_over, winner_text, scores>>

\* variant: the round tick is not gated by round_over
Tick_ungated ==
  /\ round_over \/ ticks < MaxTicks
  /\ nkeys' = 0
  /\ UNCHANGED <<vs_ai, best_of>>
  /\ RoundTick

\* the rest of the frame after the event loop (lines 361-399)
Tick ==
  /\ round_over \/ ticks < MaxTicks
  /\ nkeys' = 0
  /\ UNCHANGED <<vs_ai, best_of>>
  /\ IF ~round_over
     THEN RoundTick
     ELSE UNCHANGED <<scores, player1, player2, round_over, winner_text, p1_dead, p2_dead, ticks>>

Next == (\E key \in Keys : KeyDown(key)) \/ Tick

Spec == Init /\ [][Next]_vars

\* ----------------------------------------------------------- vocabulary
\* a step in which the round tick ran (moves and collision check)
TickStep == ticks' = ticks + 1

Players == {player1, player2}

Opposite(d) == IF d = UP THEN DOWN ELSE IF d = DOWN THEN UP ELSE IF d = LEFT THEN RIGHT ELSE LEFT

InGrid(c) == c[1] \in 0..(GRID_WIDTH - 1) /\ c[2] \in 0..(GRID_HEIGHT - 1)

\* c is a cell of q's trail other than its last
NonTerminal(c, q) == \E k \in 1..(Len(q.trail) - 1) : q.trail[k] = c

Hit(p) == ~InGrid(head(p)) \/ \E q \in Players : NonTerminal(head(p), q)

\* heading of the move that produced the head of a trail of length >= 2
LastStep(p) ==
  <<p.trail[Len(p.trail)][1] - p.trail[Len(p.trail) - 1][1],
    p.trail[Len(p.trail)][2] - p.trail[Len(p.trail) - 1][2]>>

StartTrail1 == <<<<10, GRID_HEIGHT \div 2>>>>
StartTrail2 == <<<<GRID_WIDTH - 10, GRID_HEIGHT \div 2>>>>

\* ------------------------------------------------------------------ claims

\* C1: whenever both heads are on the same cell after a tick, both agents
\* have been found dead and the round is over with outcome Draw.
C1_HeadOnIsDraw ==
  (ticks > 0 /\ head(player1) = head(player2))
    => (p1_dead /\ p2_dead /\ round_over /\ winner_text = "Draw!")

\* C2: the heading used by a move is never the opposite of the heading used
\* by the agent's previous move, so no agent steps back onto the cell it just left.
C2_NoReversal ==
  \A p \in Players :
    Len(p.trail) >= 3 =>
      /\ LastStep(p) # Opposite(LastStep([p EXCEPT !.trail = SubSeq(p.trail, 1, Len(p.trail) - 1)]))
      /\ p.trail[Len(p.trail)] # p.trail[Len(p.trail) - 2]

\* C3: after a tick, an agent's dead flag is true exactly when its head is
\* outside the grid or equals a non-terminal cell of some agent's trail.
C3_PlayerDeadIff ==
  ticks > 0 => /\ p1_dead <=> Hit(player1)
               /\ p2_dead <=> Hit(player2)

\* C3 witness: after a tick, player 2's head is in the grid on a non-terminal
\* cell of player 1's trail (dead) while player 1's head is in the grid and on
\* no non-terminal trail cell (not dead).
C3_Witness ==
  /\ ticks > 0
  /\ InGrid(head(player1)) /\ InGrid(head(player2))
  /\ NonTerminal(head(player2), player1) /\ ~NonTerminal(head(player2), player2)
  /\ ~Hit(player1)
  /\ p2_dead /\ ~p1_dead

\* C4: the round becomes OVER only in a tick whose collision check finds an
\* agent dead, and it does so in every such tick; a tick that finds nobody dead
\* leaves it RUNNING; while OVER nothing but the restart key makes it RUNNING
\* again, and outcome and scores do not change while it stays OVER.
C4_RoundOverOnce ==
  [][ /\ (~round_over /\ round_over') => (TickStep /\ (p1_dead' \/ p2_dead'))
      /\ (TickStep /\ (p1_dead' \/ p2_dead')) => (~round_over /\ round_over')
      /\ (TickStep /\ ~p1_dead' /\ ~p2_dead') => (~round_over /\ ~round_over')
      /\ (round_over /\ round_over') => (winner_text' = winner_text /\ scores' = scores)
      /\ (round_over /\ ~round_over') => KeyDown("K_r") ]_vars

\* C4 witness: a second round of a match has ended with exactly one agent dead.
C4_Witness ==
  /\ round_over /\ p2_dead /\ ~p1_dead
  /\ scores.P1 + scores.P2 >= 2
  /\ winner_text = "Player 1 Wins!"

\* C5: in a best-of-5 match a round that ends with one survivor adds exactly 1
\* to the survivor's counter and leaves the other counter alone, a Draw leaves
\* both alone, and the match is concluded exactly when a counter equals 3.
C5_ScoreUpdate ==
  [][ /\ best_of = 5 => /\ match_over <=> (scores.P1 = 3 \/ scores.P2 = 3)
                        /\ match_over' <=> (scores'.P1 = 3 \/ scores'.P2 = 3)
      /\ (best_of = 5 /\ TickStep /\ round_over') =>
           /\ (p2_dead' /\ ~p1_dead') => scores' = [P1 |-> scores.P1 + 1, P2 |-> scores.P2]
           /\ (p1_dead' /\ ~p2_dead') => scores' = [P1 |-> scores.P1, P2 |-> scores.P2 + 1]
           /\ (p1_dead' /\ p2_dead') => scores' = scores ]_vars

\* C5 witness: a best-of-5 match concluded 3-2 by a round player 1 survived alone.
C5_Witness ==
  /\ best_of = 5 /\ round_over /\ match_over
  /\ scores = [P1 |-> 3, P2 |-> 2]
  /\ p2_dead /\ ~p1_dead

\* C6: in a best-of-5 match with scores (3, 0) the match is concluded, and
\* every step other than the restart key leaves the scores at (3, 0) and the
\* match concluded.
C6_ConcludedStays ==
  [][ (best_of = 5 /\ scores = [P1 |-> 3, P2 |-> 0]) =>
        /\ match_over
        /\ ~KeyDown("K_r") => (scores' = scores /\ match_over') ]_vars

\* C6 witness: scores are (3, 0) and key events have been handled since the
\* round ended without restarting it.
C6_Witness ==
  /\ best_of = 5 /\ scores = [P1 |-> 3, P2 |-> 0]
  /\ round_over /\ nkeys = MaxKeys

\* C7: the restart key acts only while the round is OVER: it then puts both
\* agents back on their starting cells and headings with one-cell trails,
\* clears the outcome text and makes the round RUNNING, and it zeroes both
\* counters exactly when the match was concluded; while RUNNING it changes nothing.
C7_Restart ==
  [][ KeyDown("K_r") =>
        IF round_over
        THEN /\ player1'.trail = StartTrail1 /\ player1'.direction = RIGHT
             /\ player2'.trail = StartTrail2 /\ player2'.direction = LEFT
             /\ winner_text' = "" /\ ~round_over'
             /\ scores' = IF match_over THEN [P1 |-> 0, P2 |-> 0] ELSE scores
        ELSE UNCHANGED <<player1, player2, winner_text, round_over, scores, p1_dead, p2_dead>> ]_vars

\* C7 witness: a round of a match has just been restarted with the counters kept.
C7_Witness ==
  /\ ~round_over /\ ticks = 0 /\ nkeys > 0 /\ winner_text = ""
  /\ player1.trail = StartTrail1 /\ player2.trail = StartTrail2
  /\ player1.direction = RIGHT /\ player2.direction = LEFT
  /\ scores = [P1 |-> 2, P2 |-> 1]

\* C8: while the round is OVER every step other than the restart key leaves
\* trails, headings, outcome text, counters and the OVER state unchanged.
C8_OverIsFrozen ==
  [][ (round_over /\ ~KeyDown("K_r")) =>
        UNCHANGED <<player1, player2, winner_text, scores, round_over>> ]_vars

\* C8 witness: the round is OVER and key events have been handled since it
\* ended, none of which restarted it.
C8_Witness ==
  /\ round_over /\ nkeys = MaxKeys /\ winner_text = "Player 2 Wins!"
  /\ Len(player1.trail) = 3

\* C9: a tick appends head + heading to each alive agent's trail and keeps the
\* old trail as a prefix; move() leaves a not-alive agent unchanged; a trail
\* is never empty; outside ticks a trail changes only by the restart.
C9_MoveAppends ==
  [][ /\ \A p \in Players : Len(p.trail) >= 1
      /\ \A p \in Players, a \in BOOLEAN :
           LET q == [p EXCEPT !.alive = a]
           IN IF a THEN /\ Len(move(q).trail) = Len(q.trail) + 1
                        /\ SubSeq(move(q).trail, 1, Len(q.trail)) = q.trail
                        /\ head(move(q)) = <<head(q)[1] + q.direction[1], head(q)[2] + q.direction[2]>>
              ELSE move(q) = q
      /\ TickStep =>
           /\ Len(player1'.trail) = Len(player1.trail) + 1
           /\ Len(player2'.trail) = Len(player2.trail) + 1
           /\ SubSeq(player1'.trail, 1, Len(player1.trail)) = player1.trail
           /\ SubSeq(player2'.trail, 1, Len(player2.trail)) = player2.trail
           /\ head(player1') = <<head(player1)[1] + player1'.direction[1], head(player1)[2] + player1'.direction[2]>>
           /\ head(player2') = <<head(player2)[1] + player2'.direction[1], head(player2)[2] + player2'.direction[2]>>
      /\ ~TickStep =>
           \/ player1'.trail = player1.trail /\ player2'.trail = player2.trail
           \/ KeyDown("K_r") /\ round_over ]_vars

\* C9 witness: both agents have moved twice in a round and player 1 turned
\* between the two moves.
C9_Witness ==
  /\ ticks = 2 /\ Len(player1.trail) = 3 /\ Len(player2.trail) = 3
  /\ player1.trail = <<<<10, 15>>, <<11, 15>>, <<11, 14>>>>

\* C10: change_direction keeps the heading when asked for its opposite and
\* otherwise sets the requested heading, never touches the trail, and the
\* next move steps along the resulting heading; the direction keys of a
\* running round act on the agents in exactly this way.
C10_ChangeDirection ==
  [][ /\ \A p \in Players, d \in {UP, DOWN, LEFT, RIGHT} :
           LET q == change_direction(p, d)
           IN /\ q.direction = (IF d = Opposite(p.direction) THEN p.direction ELSE d)
              /\ q.trail = p.trail
              /\ head(move(q)) = <<head(p)[1] + q.direction[1], head(p)[2] + q.direction[2]>>
      /\ ~round_over =>
           /\ KeyDown("K_UP") => player1'.direction = (IF player1.direction = DOWN THEN DOWN ELSE UP)
           /\ KeyDown("K_DOWN") => player1'.direction = (IF player1.direction = UP THEN UP ELSE DOWN)
           /\ KeyDown("K_LEFT") => player1'.direction = (IF player1.direction = RIGHT THEN RIGHT ELSE LEFT)
           /\ KeyDown("K_RIGHT") => player1'.direction = (IF player1.direction = LEFT THEN LEFT ELSE RIGHT)
           /\ (~vs_ai /\ KeyDown("K_w")) => player2'.direction = (IF player2.direction = DOWN THEN DOWN ELSE UP)
           /\ (~vs_ai /\ KeyDown("K_s")) => player2'.direction = (IF player2.direction = UP THEN UP ELSE DOWN)
           /\ (~vs_ai /\ KeyDown("K_a")) => player2'.direction = (IF player2.direction = RIGHT THEN RIGHT ELSE LEFT)
           /\ (~vs_ai /\ KeyDown("K_d")) => player2'.direction = (IF player2.direction = LEFT THEN LEFT ELSE RIGHT)
           /\ (\E key \in Keys : KeyDown(key)) => (player1'.trail = player1.trail /\ player2'.trail = player2.trail) ]_vars

\* C10 witness: in a running round two key events have been handled since
\* player 1 last moved RIGHT, and its heading is now UP.
C10_Witness ==
  /\ ~round_over /\ nkeys = 2 /\ ticks = 1
  /\ Len(player1.trail) = 2 /\ LastStep(player1) = RIGHT
  /\ player1.direction = UP

\* ------------------------------------------------- vocabulary of the AI claims
Headings == {UP, DOWN, LEFT, RIGHT}

\* place of a heading in the order UP, DOWN, LEFT, RIGHT
Rank(d) == IF d = UP THEN 1 ELSE IF d = DOWN THEN 2 ELSE IF d = LEFT THEN 3 ELSE 4

Step(c, d) == <<c[1] + d[1], c[2] + d[2]>>

Neighbours(c) == {Step(c, d) : d \in Headings}

\* the headings that are not a reversal of cur and lead from c to a free grid cell
SafeSet(c, cur, occ) ==
  {d \in Headings : d # Opposite(cur) /\ InGrid(Step(c, d)) /\ Step(c, d) \notin occ}

\* every cell of either trail
TrailCells ==
  {player1.trail[k] : k \in 1..Len(player1.trail)} \cup {player2.trail[k] : k \in 1..Len(player2.trail)}

\* the AI (player 2) has no safe heading on the trails as they are
AiDoomed == SafeSet(head(player2), player2.direction, TrailCells) = {}

\* place of candidate d among the AI's candidates, which is the index of its jitter draw
AiPlace(d) ==
  Cardinality({e \in SafeSet(head(player2), player2.direction, TrailCells) : Rank(e) <= Rank(d)})

\* score of candidate d as the claim C13 words it, without the jitter
AiScore(d, hunt) ==
  LET np == Step(head(player2), d)
  IN 10 * Cardinality(SafeSet(np, d, TrailCells \cup {np}))
     + (IF hunt THEN 50 - (abs(np[1] - head(player1)[1]) + abs(np[2] - head(player1)[2])) ELSE 0)
     + (IF d = player2.direction THEN 2 ELSE 0)

\* C11: safe_directions returns, in the order UP, DOWN, LEFT, RIGHT, exactly
\* the headings that are not the reversal of the current heading and lead to a
\* free cell of the grid, for each agent's head, every current heading and
\* every occupancy of the neighbouring cells; from (10,15) heading RIGHT with
\* occupancy {(10,15)} it returns UP, DOWN, RIGHT.  (The inputs do not depend
\* on the keys handled so far, so the states a frame starts in supply them all.)
C11_SafeDirections ==
  /\ safe_directions(<<10, 15>>, RIGHT, {<<10, 15>>}) = <<UP, DOWN, RIGHT>>
  /\ nkeys = 0 =>
       \A p \in Players, cur \in Headings :
         \A extra \in SUBSET Neighbours(head(p)) :
           LET occ == (TrailCells \ Neighbours(head(p))) \cup extra
               r == safe_directions(head(p), cur, occ)
           IN /\ {r[i] : i \in 1..Len(r)} = SafeSet(head(p), cur, occ)
              /\ \A i, j \in 1..Len(r) : i < j => Rank(r[i]) < Rank(r[j])
              /\ \A i \in 1..Len(r) : r[i] # Opposite(cur)

\* C11 witness: against the AI, after a tick, the AI's head is enclosed: the
\* cells above, below and ahead of it are trail cells, and safe_directions
\* leaves out every heading.
C11_Witness ==
  /\ vs_ai /\ ticks > 0 /\ ~round_over /\ nkeys = 0
  /\ head(player2) = <<15, 15>> /\ player2.direction = LEFT
  /\ {<<15, 14>>, <<15, 16>>, <<14, 15>>} \subseteq build_occupied(<<player1, player2>>)
  /\ safe_directions(head(player2), player2.direction, build_occupied(<<player1, player2>>)) = <<>>

\* C12: in a tick in which the AI has no safe heading, choose_ai_direction
\* returns the AI's heading unchanged for every random draw, the AI moves one
\* cell along that heading, and the collision check of that tick finds it dead.
C12_DoomedAiDies ==
  [][ (vs_ai /\ TickStep /\ AiDoomed) =>
        /\ \A hunt \in BOOLEAN, jit \in Jitters :
             choose_ai_direction(player2, player1, build_occupied(<<player1, player2>>), hunt, jit)
               = player2.direction
        /\ player2'.direction = player2.direction
        /\ player2'.trail = Append(player2.trail, Step(head(player2), player2.direction))
        /\ p2_dead' ]_vars

\* C12 witness: the AI, closed in at (15,15), has ridden on into player 1's
\* trail at (14,15) and died alone.
C12_Witness ==
  /\ vs_ai /\ round_over /\ p2_dead /\ ~p1_dead
  /\ head(player2) = <<14, 15>> /\ player2.direction = LEFT
  /\ winner_text = "Player 1 Wins!"

\* C13: when the AI has candidates, choose_ai_direction returns one of them
\* whose score is greatest, and of several with the greatest score the first in
\* the order UP, DOWN, LEFT, RIGHT, for every hunting flag and jitter draw.
\* (The AI's decision reads the trails and its own heading, which key events
\* do not change against the AI, so the states a frame starts in supply every
\* input of a decision; the decisions looked at are those the round tick goes
\* on to take.)
C13_AiPicksBest ==
  (vs_ai /\ ~round_over /\ nkeys = 0 /\ ticks < MaxTicks /\ ~AiDoomed) =>
    LET cands == SafeSet(head(player2), player2.direction, TrailCells)
        place == [e \in cands |-> AiPlace(e)]
        occ == build_occupied(<<player1, player2>>)
    IN \A hunt \in BOOLEAN :
         LET score == [e \in cands |-> AiScore(e, hunt)]
         IN \A jit \in Jitters :
              LET r == choose_ai_direction(player2, player1, occ, hunt, jit)
              IN /\ r \in cands
                 /\ \A e \in cands :
                      /\ score[e] + jit[place[e]] <= score[r] + jit[place[r]]
                      /\ score[e] + jit[place[e]] = score[r] + jit[place[r]] => Rank(r) <= Rank(e)

\* C13 witness: against the AI, after a tick, the AI has three candidates and
\* there is a draw in which two of them share the greatest score.
C13_Witness ==
  /\ vs_ai /\ ticks > 0 /\ ~round_over /\ nkeys = 0
  /\ Cardinality(SafeSet(head(player2), player2.direction, TrailCells)) = 3
  /\ \E hunt \in BOOLEAN, jit \in Jitters :
       \E d, e \in SafeSet(head(player2), player2.direction, TrailCells) :
         /\ d # e
         /\ AiScore(d, hunt) + jit[AiPlace(d)] = AiScore(e, hunt) + jit[AiPlace(e)]
         /\ \A f \in SafeSet(head(player2), player2.direction, TrailCells) :
              AiScore(f, hunt) + jit[AiPlace(f)] <= AiScore(d, hunt) + jit[AiPlace(d)]

\* ps after move() of the agent at place i, and after both moves in a given order
MoveAt(ps, i) == [ps EXCEPT ![i] = move(ps[i])]

MoveInOrder(ps, order) == MoveAt(MoveAt(ps, order[1]), order[2])

\* dead flags, outcome text and scores the collision check and the score
\* update yield on the moved agents ps
Outcome(ps) ==
  LET d1 == player_dead(ps[1], ps)
      d2 == player_dead(ps[2], ps)
  IN <<d1, d2,
       IF round_ends(d1, d2) THEN winner_of(d1, d2) ELSE winner_text,
       IF round_ends(d1, d2) THEN scores_after(d1, d2) ELSE scores>>

\* the two agents with headings h1 and h2
Heading(h1, h2) == <<[player1 EXCEPT !.direction = h1], [player2 EXCEPT !.direction = h2]>>

\* C14: in every tick the agents and the dead flags, outcome and scores are
\* those obtained by moving player 1 then player 2 and also those obtained by
\* moving player 2 then player 1; and from the state a frame starts in, both
\* orders give the same dead flags, outcome and scores for every pair of headings.
C14_MoveOrder ==
  [][ TickStep =>
        /\ MoveInOrder(Heading(player1'.direction, player2'.direction), <<1, 2>>) = <<player1', player2'>>
        /\ MoveInOrder(Heading(player1'.direction, player2'.direction), <<2, 1>>) = <<player1', player2'>>
        /\ Outcome(MoveInOrder(Heading(player1'.direction, player2'.direction), <<2, 1>>))
             = <<p1_dead', p2_dead', winner_text', scores'>>
        /\ nkeys = 0 =>
             \A h1, h2 \in Headings :
               Outcome(MoveInOrder(Heading(h1, h2), <<1, 2>>)) = Outcome(MoveInOrder(Heading(h1, h2), <<2, 1>>)) ]_vars

\* C14 witness: a tick in which both agents moved onto the same cell, the case
\* in which a check between the two moves would see another state than the
\* check after both.
C14_Witness ==
  /\ ticks > 0 /\ nkeys = 0 /\ ~round_over
  /\ head(player1) = head(player2)
  /\ player1.direction = RIGHT /\ player2.direction = LEFT

\* C15: every tick either ends the round or puts each agent's head on a cell
\* of the grid that its trail did not hold, so the trail of a running round
\* holds as many different grid cells as it is long and a round cannot stay
\* RUNNING for more than GRID_WIDTH x GRID_HEIGHT ticks.
C15_RoundEnds ==
  [][ /\ TickStep =>
           \/ round_over'
           \/ \A i \in 1..2 :
                LET old == <<player1, player2>>[i].trail
                    new == <<player1', player2'>>[i].trail
                IN /\ Len(new) = Len(old) + 1
                   /\ InGrid(new[Len(new)])
                   /\ \A k \in 1..Len(old) : old[k] # new[Len(new)]
      /\ ~round_over =>
           \A p \in Players :
             /\ Cardinality({c \in {p.trail[k] : k \in 1..Len(p.trail)} : InGrid(c)}) = Len(p.trail)
             /\ Len(p.trail) - 1 < GRID_WIDTH * GRID_HEIGHT ]_vars

\* C15 witness: a round that was still running after its first tick has ended
\* at its second.
C15_Witness ==
  /\ round_over /\ ticks = 2 /\ nkeys = 0
  /\ p1_dead /\ p2_dead /\ winner_text = "Draw!"
  /\ Len(player1.trail) = 12

\* C16: against the AI, a tick in which the AI had a safe heading when it
\* decided leaves the AI not dead, whatever player 1 did; the AI is found dead
\* only in ticks in which it had none.
C16_AiSurvives ==
  [][ (vs_ai /\ TickStep) => (p2_dead' <=> AiDoomed) ]_vars

\* C16 witness: against the AI, player 1 has moved onto the very cell the AI
\* chose, and the AI is not dead.
C16_Witness ==
  /\ vs_ai /\ ticks > 0 /\ nkeys = 0
  /\ head(player1) = head(player2)
  /\ ~p2_dead /\ ~round_over

\* C17: in a running round both trails are equally long, all their cells are
\* in the grid, no cell occurs twice in one trail, and a cell of both trails
\* has the same index in both; in every state all cells of a trail but the
\* last are in the grid.
C17_TrailShape ==
  /\ \A p \in Players : \A k \in 1..(Len(p.trail) - 1) : InGrid(p.trail[k])
  /\ ~round_over =>
       /\ Len(player1.trail) = Len(player2.trail)
       /\ \A p \in Players :
            /\ \A k \in 1..Len(p.trail) : InGrid(p.trail[k])
            /\ \A j, k \in 1..Len(p.trail) : p.trail[j] = p.trail[k] => j = k
       /\ \A j \in 1..Len(player1.trail), k \in 1..Len(player2.trail) :
            player1.trail[j] = player2.trail[k] => j = k

\* C17 witness: a running round, after a tick, in which the two trails share
\* a cell that is not the head.
C17_Witness ==
  /\ ~round_over /\ ticks > 0
  /\ \E k \in 1..(Len(player1.trail) - 1) : player1.trail[k] = player2.trail[k]
  /\ head(player1) # head(player2)

\* C18: the AI's candidate list and the space score of every candidate are
\* the same on the occupancy of both full trails and on that occupancy
\* without the AI's own head.
C18_OwnHeadIrrelevant ==
  (vs_ai /\ nkeys = 0) =>
    LET occ == build_occupied(<<player1, player2>>)
        less == occ \ {head(player2)}
        cands == safe_directions(head(player2), player2.direction, occ)
    IN /\ head(player2) \in occ
       /\ safe_directions(head(player2), player2.direction, less) = cands
       /\ \A i \in 1..Len(cands) :
            LET np == next_pos_from(head(player2), cands[i])
            IN Len(safe_directions(np, cands[i], occ \cup {np}))
                 = Len(safe_directions(np, cands[i], less \cup {np}))

\* C18 witness: against the AI, after a tick, the AI's head is in the
\* occupancy, and the AI has three candidates, each with three safe headings,
\* on the occupancy without it.
C18_Witness ==
  /\ vs_ai /\ nkeys = 0 /\ ticks > 0 /\ ~round_over
  /\ head(player2) \in build_occupied(<<player1, player2>>)
  /\ LET less == build_occupied(<<player1, player2>>) \ {head(player2)}
         cands == safe_directions(head(player2), player2.direction, less)
     IN /\ Len(cands) = 3
        /\ \A i \in 1..3 :
             Len(safe_directions(next_pos_from(head(player2), cands[i]), cands[i], less)) = 3

\* C19: in a best-of-5 match each counter is between 0 and 3, at most one is
\* 3, and a concluded match has its round OVER and counters that differ; in
\* single-round mode both counters are 0.
C19_ScoreRange ==
  /\ best_of = 5 =>
       /\ scores.P1 \in 0..3 /\ scores.P2 \in 0..3
       /\ ~(scores.P1 = 3 /\ scores.P2 = 3)
       /\ (scores.P1 = 3 \/ scores.P2 = 3) => (round_over /\ scores.P1 # scores.P2)
  /\ best_of = 1 => scores = [P1 |-> 0, P2 |-> 0]

\* C19 witness: a best-of-5 match concluded 2-3.
C19_Witness ==
  /\ best_of = 5 /\ round_over
  /\ scores = [P1 |-> 2, P2 |-> 3]

\* C20: both agents' alive flags are true in every state, also when the
\* collision check has found the agent dead.
C20_AlwaysAlive == player1.alive /\ player2.alive

\* C20 witness: player 1 has left the grid, the collision check found it
\* dead, and its alive flag is still true.
C20_Witness ==
  /\ round_over /\ p1_dead /\ ~InGrid(head(player1))
  /\ player1.alive
====
